---- MODULE Spec2Model ----
(***************************************************************************)
(* Model of src/src/main.rs: the Loghub archive-to-text converter.         *)
(*                                                                         *)
(* A file name is a sequence of one-character strings, a file's content a  *)
(* sequence of byte classes.  An archive is the sequence of its entries    *)
(* plus `tail`, the way its byte stream ends after the last listed entry.  *)
(***************************************************************************)
EXTENDS Integers, Sequences, FiniteSets, TLC

VARIABLES
    dir,        \* the working directory as found: name -> [isFile, archive]
    order,      \* the names of dir in the order the directory walk yields them
    perm,       \* the one output path the file system refuses, if any
    disk,       \* the files main has created: path -> bytes on disk
    run,        \* 1 or 2: which invocation of the program this is
    pc,         \* where the program is
    todo,       \* names the walk has still to yield
    path,       \* main's `path` (its file name)
    out_path,   \* main's `out_path`
    archive,    \* the archive behind `path`, as stream_* reads it
    wbuf,       \* the BufWriter's buffered bytes
    ei,         \* stream_*: 1-based index of the entry the loop is at
    pos,        \* stream_tar_gz: bytes of the current entry already consumed
    faulted,    \* the stream's read error has been returned at least once
    lastErr,    \* what the last Err of reader.lines() was: none, utf8 or io
    skipParity, \* parity of the number of "Skipping invalid UTF-8 line" notices
    allDone,    \* "All datasets processed." has been printed in this run
    exit,       \* the process's exit: running, ok or err
    writers,    \* this run: out path -> the input names File::create was called for
    flushed,    \* this run: out path -> its bytes on disk when "wrote" was printed
    snap        \* the disk as the first run left it

vars == <<dir, order, perm, disk, run, pc, todo, path, out_path, archive, wbuf,
          ei, pos, faulted, lastErr, skipParity, allDone, exit, writers,
          flushed, snap>>

(***************************************************************************)
(* Bounds of the model.                                                    *)
(***************************************************************************)
MaxEntries == 2   \* entries of an enumerated archive
MaxBytes == 3     \* content bytes of an enumerated archive, all entries together
BufCap == 2       \* capacity of the BufWriter (8192 in std), scaled down

(***************************************************************************)
(* Bytes.  "a" and "b" are valid one-byte characters, BAD is a byte that   *)
(* is never valid UTF-8 (0xFF).                                            *)
(***************************************************************************)
LF == "LF"
CR == "CR"
BAD == "BAD"
TarBytes == {"a", LF, CR, BAD}
ZipBytes == {"a", "b", LF}

Last(s) == s[Len(s)]

EmptyMap == [x \in {} |-> <<>>]
Put(f, k, v) == [x \in DOMAIN f \cup {k} |-> IF x = k THEN v ELSE f[x]]

(***************************************************************************)
(* File names.                                                             *)
(***************************************************************************)
TarGzSuffix == <<".", "t", "a", "r", ".", "g", "z">>
ZipSuffix == <<".", "z", "i", "p">>
LogsSuffix == <<"_", "l", "o", "g", "s", ".", "t", "x", "t">>
ExtGz == <<"g", "z">>
ExtZip == <<"z", "i", "p">>
NoExt == <<"/">>   \* None: no file name holds a "/"

\* str::ends_with
EndsWith(s, suf) ==
    /\ Len(s) >= Len(suf)
    /\ SubSeq(s, Len(s) - Len(suf) + 1, Len(s)) = suf

\* Path::extension of a file name: what follows the last ".", and None when
\* there is no "." or the only "." is the first character.
Extension(fname) ==
    LET dots == {i \in 1..Len(fname) : fname[i] = "."}
    IN  IF dots = {} THEN NoExt
        ELSE LET last == CHOOSE i \in dots : \A j \in dots : j <= i
             IN  IF last = 1 THEN NoExt
                 ELSE SubSeq(fname, last + 1, Len(fname))

dataset_stem_strip6(fname) ==
    IF EndsWith(fname, TarGzSuffix) THEN SubSeq(fname, 1, Len(fname) - 6)
    ELSE IF EndsWith(fname, ZipSuffix) THEN SubSeq(fname, 1, Len(fname) - 4)
    ELSE fname

dataset_stem(fname) ==
    IF EndsWith(fname, TarGzSuffix) THEN SubSeq(fname, 1, Len(fname) - 7)
    ELSE IF EndsWith(fname, ZipSuffix) THEN SubSeq(fname, 1, Len(fname) - 4)
    ELSE fname

\* format!("{}_logs.txt", out_stem)
OutPath(fname) == dataset_stem(fname) \o LogsSuffix

\* main's extension filter: the file is passed on to File::create
PassesFilter(fname) == Extension(fname) \in {ExtGz, ExtZip}

(***************************************************************************)
(* BufWriter<File>.  A writer is [buf, file, ok]: the buffered bytes, the  *)
(* bytes of the file on disk, and whether every call so far returned Ok.   *)
(* A write to a refused path fails when it has bytes to put on disk.       *)
(***************************************************************************)
\* BufWriter::flush_buf
FlushBuf(w, writable) ==
    IF w.buf = <<>> THEN w
    ELSE IF writable THEN [buf |-> <<>>, file |-> w.file \o w.buf, ok |-> TRUE]
    ELSE [w EXCEPT !.ok = FALSE]

\* BufWriter::write_all
WriteAll(w, b, writable) ==
    IF ~w.ok THEN w
    ELSE IF Len(b) < BufCap - Len(w.buf) THEN [w EXCEPT !.buf = @ \o b]
    ELSE LET f == IF Len(b) > BufCap - Len(w.buf) THEN FlushBuf(w, writable) ELSE w
         IN  IF ~f.ok THEN f
             ELSE IF Len(b) >= BufCap
                  THEN IF writable \/ b = <<>>
                       THEN [f EXCEPT !.file = @ \o b]
                       ELSE [f EXCEPT !.ok = FALSE]
                  ELSE [f EXCEPT !.buf = @ \o b]

(***************************************************************************)
(* Archives.  An entry is [kind, data]; only a "file" entry has data.      *)
(* tail says how the stream ends after the listed entries:                 *)
(*   eof          cleanly                                                  *)
(*   noopen       File::open of the archive fails                          *)
(*   corrupt      tar: the next header (or the gzip header) is unreadable  *)
(*   io_transient tar: after the last entry's bytes one read fails         *)
(*   io_sticky    tar: after the last entry's bytes every read fails       *)
(*   nodir        zip: the central directory does not parse                *)
(*   badentry     zip: one more entry is listed, and by_index fails on it  *)
(*   io           zip: after the last entry's bytes the read fails         *)
(***************************************************************************)
TarTails == {"eof", "noopen", "corrupt", "io_transient", "io_sticky"}
ZipTails == {"eof", "noopen", "nodir", "badentry", "io"}
IoTails == {"io_transient", "io_sticky", "io"}

DirEntry == [kind |-> "dir", data |-> <<>>]
FileEntry(d) == [kind |-> "file", data |-> d]

\* Entry::header().entry_type().is_file()
TarIsFile(e) == e.kind = "file"

ZipIsFile_always(e) == TRUE

\* ZipFile::is_file()
ZipIsFile(e) == e.kind = "file"

(***************************************************************************)
(* BufRead::lines() over one entry.  LinesNext is one call of next() with  *)
(* p bytes of data consumed; fault says that the read after the last byte  *)
(* of data fails.  read_line takes the bytes up to and including the next  *)
(* LF (or to the end), fails with them consumed when they are not UTF-8 or *)
(* when the read fails, and next() strips a final LF and a CR before it.   *)
(***************************************************************************)
ValidUtf8(s) == \A i \in 1..Len(s) : s[i] # BAD

StripTerminator(raw) ==
    IF raw # <<>> /\ Last(raw) = LF
    THEN LET s == SubSeq(raw, 1, Len(raw) - 1)
         IN  IF s # <<>> /\ Last(s) = CR THEN SubSeq(s, 1, Len(s) - 1) ELSE s
    ELSE raw

LinesNext(data, p, fault) ==
    LET lfs == {j \in (p + 1)..Len(data) : data[j] = LF}
        end == IF lfs = {} THEN Len(data)
               ELSE CHOOSE j \in lfs : \A k \in lfs : j <= k
        raw == SubSeq(data, p + 1, end)
    IN  IF lfs = {} /\ fault
        THEN [kind |-> "io", line |-> <<>>, next |-> end]
        ELSE IF p = Len(data)
        THEN [kind |-> "eof", line |-> <<>>, next |-> p]
        ELSE IF ValidUtf8(raw)
        THEN [kind |-> "ok", line |-> StripTerminator(raw), next |-> end]
        ELSE [kind |-> "utf8", line |-> <<>>, next |-> end]

(***************************************************************************)
(* The writer of the archive under way.                                    *)
(***************************************************************************)
Writable == ~(perm.path = out_path /\ perm.mode = "nowrite")
Writer == [buf |-> wbuf, file |-> disk[out_path], ok |-> TRUE]
StoreWriter(w) ==
    /\ wbuf' = w.buf
    /\ disk' = Put(disk, out_path, w.file)

\* everything written to the sink so far
Sink == disk[out_path] \o wbuf

TarWriteLine_noLF(w, line, writable) == WriteAll(w, line, writable)

\* writer.write_all(line.as_bytes())?; writer.write_all(b"\n")?;
TarWriteLine(w, line, writable) ==
    WriteAll(WriteAll(w, line, writable), <<LF>>, writable)

\* io::copy(&mut zf, writer)?; writer.write_all(b"\n")?;
ZipWriteEntry(w, data, copyFails, writable) ==
    LET w1 == WriteAll(w, data, writable)
    IN  IF copyFails THEN [w1 EXCEPT !.ok = FALSE]
        ELSE WriteAll(w1, <<LF>>, writable)

envVars == <<dir, order, perm, run, snap>>
mainVars == <<todo, path, out_path, archive, allDone, exit, writers, flushed>>

(***************************************************************************)
(* stream_tar_gz.  It returns Ok at pc = "flush" (main's writer.flush())   *)
(* and Err at pc = "abort" (main's `?`).                                   *)
(***************************************************************************)
TarOpen ==
    /\ pc = "tar_open"
    /\ IF archive.tail = "noopen"
       THEN pc' = "abort" /\ UNCHANGED ei
       ELSE pc' = "tar_entries" /\ ei' = 1
    /\ UNCHANGED <<envVars, mainVars, disk, wbuf, pos, faulted, lastErr, skipParity>>

\* one step of `for entry in archive.entries()?`
TarEntries ==
    /\ pc = "tar_entries"
    /\ IF ei > Len(archive.entries)
       THEN /\ pc' = IF archive.tail = "corrupt" THEN "abort" ELSE "flush"
            /\ UNCHANGED <<ei, pos>>
       ELSE IF TarIsFile(archive.entries[ei])
       THEN pc' = "tar_lines" /\ pos' = 0 /\ UNCHANGED ei
       ELSE ei' = ei + 1 /\ UNCHANGED <<pc, pos>>
    /\ UNCHANGED <<envVars, mainVars, disk, wbuf, faulted, lastErr, skipParity>>

\* one step of `for line in reader.lines()`
TarLine ==
    /\ pc = "tar_lines"
    /\ LET fault == /\ ei = Len(archive.entries)
                    /\ \/ archive.tail = "io_sticky"
                       \/ archive.tail = "io_transient" /\ ~faulted
           r == LinesNext(archive.entries[ei].data, pos, fault)
       IN  CASE r.kind = "eof" ->
                  /\ pc' = "tar_entries"
                  /\ ei' = ei + 1
                  /\ UNCHANGED <<disk, wbuf, pos, faulted, lastErr, skipParity>>
             [] r.kind = "ok" ->
                  LET w == TarWriteLine(Writer, r.line, Writable)
                  IN  /\ StoreWriter(w)
                      /\ pos' = r.next
                      /\ pc' = IF w.ok THEN "tar_lines" ELSE "abort"
                      /\ UNCHANGED <<ei, faulted, lastErr, skipParity>>
             [] r.kind = "utf8" ->
                  /\ lastErr' = "utf8"
                  /\ skipParity' = ~skipParity
                  /\ pos' = r.next
                  /\ UNCHANGED <<pc, ei, disk, wbuf, faulted>>
             [] r.kind = "io" ->
                  /\ lastErr' = "io"
                  /\ skipParity' = ~skipParity
                  /\ faulted' = TRUE
                  /\ pos' = r.next
                  /\ UNCHANGED <<pc, ei, disk, wbuf>>
    /\ UNCHANGED <<envVars, mainVars>>

(***************************************************************************)
(* stream_zip                                                              *)
(***************************************************************************)
\* ZipArchive::len()
ZipLen(a) == Len(a.entries) + IF a.tail = "badentry" THEN 1 ELSE 0

ZipOpen ==
    /\ pc = "zip_open"
    /\ IF archive.tail \in {"noopen", "nodir"}
       THEN pc' = "abort" /\ UNCHANGED ei
       ELSE pc' = "zip_entries" /\ ei' = 1
    /\ UNCHANGED <<envVars, mainVars, disk, wbuf, pos, faulted, lastErr, skipParity>>

\* one step of `for i in 0..archive.len()`, i = ei - 1
ZipEntry ==
    /\ pc = "zip_entries"
    /\ IF ei > ZipLen(archive)
       THEN pc' = "flush" /\ UNCHANGED <<ei, disk, wbuf, faulted>>
       ELSE IF ei > Len(archive.entries)
       THEN pc' = "abort" /\ UNCHANGED <<ei, disk, wbuf, faulted>>
       ELSE IF ZipIsFile(archive.entries[ei])
       THEN LET copyFails == archive.tail = "io" /\ ei = Len(archive.entries)
                w == ZipWriteEntry(Writer, archive.entries[ei].data, copyFails, Writable)
            IN  /\ StoreWriter(w)
                /\ faulted' = (faulted \/ copyFails)
                /\ pc' = IF w.ok THEN "zip_entries" ELSE "abort"
                /\ ei' = ei + 1
       ELSE ei' = ei + 1 /\ UNCHANGED <<pc, disk, wbuf, faulted>>
    /\ UNCHANGED <<envVars, mainVars, pos, lastErr, skipParity>>

(***************************************************************************)
(* The archives the extractors are checked on: every sequence of at most   *)
(* MaxEntries entries holding at most MaxBytes content bytes together,     *)
(* with every tail.  A tail that is met before any entry is read is listed *)
(* with no entries, and a failing read follows a file entry's bytes.       *)
(***************************************************************************)
Datas(Bs, n) == UNION {[1..k -> Bs] : k \in 0..n}

RECURSIVE TotalBytes(_)
TotalBytes(es) == IF es = <<>> THEN 0 ELSE Len(Head(es).data) + TotalBytes(Tail(es))

RECURSIVE EntrySeqs(_, _, _)
EntrySeqs(Bs, k, b) ==
    IF k = 0 THEN {<<>>}
    ELSE LET shorter == EntrySeqs(Bs, k - 1, b)
         IN  shorter \cup
             UNION {{Append(es, e) :
                        e \in {DirEntry} \cup
                              {FileEntry(d) : d \in Datas(Bs, b - TotalBytes(es))}} :
                    es \in {t \in shorter : Len(t) = k - 1}}

TailFits(es, t) ==
    /\ t \in {"noopen", "nodir"} => es = <<>>
    /\ t \in IoTails => es # <<>> /\ Last(es).kind = "file"

TarArchives ==
    {a \in [entries : EntrySeqs(TarBytes, MaxEntries, MaxBytes), tail : TarTails] :
        TailFits(a.entries, a.tail)}

ZipArchives ==
    {a \in [entries : EntrySeqs(ZipBytes, MaxEntries, MaxBytes), tail : ZipTails] :
        TailFits(a.entries, a.tail)}

SparkTarGz == <<"S", "p", "a", "r", "k", ".", "t", "a", "r", ".", "g", "z">>
SparkZip == <<"S", "p", "a", "r", "k", ".", "z", "i", "p">>

NoPerm == [path |-> <<>>, mode |-> "ok"]

\* main has created the output of the archive `name` and calls stream_*
InitStream(name, a, start) ==
    /\ dir = [n \in {name} |-> [isFile |-> TRUE, archive |-> a]]
    /\ order = <<name>>
    /\ perm \in {NoPerm, [path |-> OutPath(name), mode |-> "nowrite"]}
    /\ disk = [p \in {OutPath(name)} |-> <<>>]
    /\ run = 1
    /\ pc = start
    /\ todo = <<>>
    /\ path = name
    /\ out_path = OutPath(name)
    /\ archive = a
    /\ wbuf = <<>>
    /\ ei = 1
    /\ pos = 0
    /\ faulted = FALSE
    /\ lastErr = "none"
    /\ skipParity = FALSE
    /\ allDone = FALSE
    /\ exit = "running"
    /\ writers = [p \in {OutPath(name)} |-> {name}]
    /\ flushed = EmptyMap
    /\ snap = EmptyMap

InitTar == \E a \in TarArchives : InitStream(SparkTarGz, a, "tar_open")
NextTar == TarOpen \/ TarEntries \/ TarLine
SpecTar == InitTar /\ [][NextTar]_vars
\* the loops of stream_tar_gz are not suspended: whatever step is possible is taken
FairTar == SpecTar /\ WF_vars(NextTar)

InitZip == \E a \in ZipArchives : InitStream(SparkZip, a, "zip_open")
NextZip == ZipOpen \/ ZipEntry
SpecZip == InitZip /\ [][NextZip]_vars

(***************************************************************************)
(* main.  The working directories it is checked on hold any of these       *)
(* files, each with one of its listed contents; the walk yields them in    *)
(* the listed order or in the reverse one, the same way in both runs; and  *)
(* the file system refuses at most one output path, either its creation    *)
(* or every write to it.                                                   *)
(***************************************************************************)
AndroidZip == <<"A", "n", "d", "r", "o", "i", "d", "_", "v", "2", ".", "z", "i", "p">>
FooGz == <<"f", "o", "o", ".", "g", "z">>
NotesTxt == <<"n", "o", "t", "e", "s", ".", "t", "x", "t">>
SubZip == <<"s", "u", "b", ".", "z", "i", "p">>
DotZip == <<".", "z", "i", "p">>

GoodTar == [entries |-> <<DirEntry, FileEntry(<<"a", LF, BAD, LF, "a">>)>>, tail |-> "eof"]
BadGzip == [entries |-> <<>>, tail |-> "corrupt"]
StickyTar == [entries |-> <<FileEntry(<<"a", LF>>)>>, tail |-> "io_sticky"]
GoodZip == [entries |-> <<DirEntry, FileEntry(<<"a">>), FileEntry(<<"b", LF>>)>>, tail |-> "eof"]
BadZip == [entries |-> <<>>, tail |-> "nodir"]
SmallZip == [entries |-> <<FileEntry(<<"b">>)>>, tail |-> "eof"]
NotArchive == [entries |-> <<>>, tail |-> "corrupt"]

Catalog ==
    << [name |-> SparkTarGz, isFile |-> TRUE, variants |-> {GoodTar, BadGzip, StickyTar}],
       [name |-> SparkZip, isFile |-> TRUE, variants |-> {GoodZip, BadZip}],
       [name |-> AndroidZip, isFile |-> TRUE, variants |-> {SmallZip}],
       [name |-> FooGz, isFile |-> TRUE, variants |-> {NotArchive}],
       [name |-> NotesTxt, isFile |-> TRUE, variants |-> {NotArchive}],
       [name |-> SubZip, isFile |-> FALSE, variants |-> {NotArchive}],
       [name |-> DotZip, isFile |-> TRUE, variants |-> {SmallZip}] >>

CatalogNames == [i \in 1..Len(Catalog) |-> Catalog[i].name]

RECURSIVE DirsUpTo(_)
DirsUpTo(k) ==
    IF k = 0 THEN {EmptyMap}
    ELSE LET prev == DirsUpTo(k - 1)
         IN  prev \cup
             {Put(d, Catalog[k].name, [isFile |-> Catalog[k].isFile, archive |-> v]) :
                 d \in prev, v \in Catalog[k].variants}

Dirs == DirsUpTo(Len(Catalog))

Reverse(s) == [i \in 1..Len(s) |-> s[Len(s) + 1 - i]]

WalkOrders(d) ==
    LET Present(n) == n \in DOMAIN d
        fwd == SelectSeq(CatalogNames, Present)
    IN  {fwd, Reverse(fwd)}

RECURSIVE SetToSeq(_)
SetToSeq(S) ==
    IF S = {} THEN <<>>
    ELSE LET x == CHOOSE y \in S : TRUE IN <<x>> \o SetToSeq(S \ {x})

\* WalkDir::new(".").max_depth(1): the files found when the run starts, the
\* directory's own entries in their order and the outputs of an earlier run.
\* (The walk's first entry, "." itself, is a directory like SubZip and is
\* skipped the same way; a failure of the walk itself is not modelled.)
ScanList == order \o SetToSeq(DOMAIN disk \ DOMAIN dir)

\* path.is_file()
IsRegular(n) == IF n \in DOMAIN dir THEN dir[n].isFile ELSE TRUE

ArchiveOf(n) == IF n \in DOMAIN dir THEN dir[n].archive ELSE NotArchive

Perms(d) ==
    {NoPerm} \cup
    {[path |-> OutPath(n), mode |-> m] :
        n \in {x \in DOMAIN d : d[x].isFile /\ PassesFilter(x)},
        m \in {"nocreate", "nowrite"}}

CreateFile_append(d, p) == IF p \in DOMAIN d THEN d ELSE Put(d, p, <<>>)

\* File::create: a new empty file, or the old one truncated
CreateFile(d, p) == Put(d, p, <<>>)

streamVars == <<wbuf, ei, pos, faulted, lastErr>>

Init ==
    /\ dir \in Dirs
    /\ order \in WalkOrders(dir)
    /\ perm \in Perms(dir)
    /\ disk = EmptyMap
    /\ run = 1
    /\ pc = "scan"
    /\ todo = order
    /\ path = <<>>
    /\ out_path = <<>>
    /\ archive = NotArchive
    /\ wbuf = <<>>
    /\ ei = 1
    /\ pos = 0
    /\ faulted = FALSE
    /\ lastErr = "none"
    /\ skipParity = FALSE
    /\ allDone = FALSE
    /\ exit = "running"
    /\ writers = EmptyMap
    /\ flushed = EmptyMap
    /\ snap = EmptyMap

\* the two `continue`s at the head of the loop
MainSkip ==
    /\ pc = "scan"
    /\ todo # <<>>
    /\ ~IsRegular(Head(todo)) \/ ~PassesFilter(Head(todo))
    /\ todo' = Tail(todo)
    /\ UNCHANGED <<envVars, streamVars, disk, pc, path, out_path, archive,
                   skipParity, allDone, exit, writers, flushed>>

\* out_stem, out_path, File::create(&out_path)?, BufWriter::new
MainCreate ==
    /\ pc = "scan"
    /\ todo # <<>>
    /\ IsRegular(Head(todo))
    /\ PassesFilter(Head(todo))
    /\ LET n == Head(todo)
           p == OutPath(n)
       IN  /\ todo' = Tail(todo)
           /\ path' = n
           /\ out_path' = p
           /\ archive' = ArchiveOf(n)
           /\ IF perm.path = p /\ perm.mode = "nocreate"
              THEN pc' = "abort" /\ UNCHANGED <<disk, writers>>
              ELSE /\ pc' = "dispatch"
                   /\ disk' = CreateFile(disk, p)
                   /\ writers' = Put(writers, p,
                                     (IF p \in DOMAIN writers THEN writers[p] ELSE {}) \cup {n})
    /\ wbuf' = <<>>
    /\ ei' = 1
    /\ pos' = 0
    /\ faulted' = FALSE
    /\ lastErr' = "none"
    /\ UNCHANGED <<envVars, skipParity, allDone, exit, flushed>>

\* match path.extension(): stream_tar_gz, stream_zip, or `continue`
MainDispatch ==
    /\ pc = "dispatch"
    /\ pc' = IF Extension(path) = ExtGz /\ EndsWith(path, TarGzSuffix) THEN "tar_open"
             ELSE IF Extension(path) = ExtZip THEN "zip_open"
             ELSE "scan"
    /\ UNCHANGED <<envVars, mainVars, streamVars, disk, skipParity>>

\* writer.flush()?; eprintln!("wrote ...")
MainFlush ==
    /\ pc = "flush"
    /\ LET w == FlushBuf(Writer, Writable)
       IN  IF w.ok
           THEN /\ StoreWriter(w)
                /\ flushed' = Put(flushed, out_path, w.file)
                /\ pc' = "scan"
           ELSE /\ pc' = "abort"
                /\ UNCHANGED <<disk, wbuf, flushed>>
    /\ UNCHANGED <<envVars, todo, path, out_path, archive, allDone, exit, writers,
                   ei, pos, faulted, lastErr, skipParity>>

\* a `?` of main returns the error: the writer, if there is one, is dropped
\* (its buffer is written out, a failure of that ignored) and the exit is non-zero
MainAbort ==
    /\ pc = "abort"
    /\ IF wbuf = <<>>
       THEN UNCHANGED <<disk, wbuf>>
       ELSE LET w == FlushBuf(Writer, Writable)
            IN  /\ disk' = Put(disk, out_path, w.file)
                /\ wbuf' = <<>>
    /\ exit' = "err"
    /\ pc' = "failed"
    /\ UNCHANGED <<envVars, todo, path, out_path, archive, allDone, writers, flushed,
                   ei, pos, faulted, lastErr, skipParity>>

\* eprintln!("All datasets processed."); Ok(())
MainFinish ==
    /\ pc = "scan"
    /\ todo = <<>>
    /\ allDone' = TRUE
    /\ exit' = "ok"
    /\ pc' = "done"
    /\ UNCHANGED <<envVars, streamVars, disk, todo, path, out_path, archive,
                   skipParity, writers, flushed>>

\* the program is started a second time in the directory the first run left
Rerun ==
    /\ pc \in {"done", "failed"}
    /\ run = 1
    /\ run' = 2
    /\ snap' = disk
    /\ todo' = ScanList
    /\ pc' = "scan"
    /\ path' = <<>>
    /\ out_path' = <<>>
    /\ archive' = NotArchive
    /\ wbuf' = <<>>
    /\ ei' = 1
    /\ pos' = 0
    /\ faulted' = FALSE
    /\ lastErr' = "none"
    /\ skipParity' = FALSE
    /\ allDone' = FALSE
    /\ exit' = "running"
    /\ writers' = EmptyMap
    /\ flushed' = EmptyMap
    /\ UNCHANGED <<dir, order, perm, disk>>

Next ==
    \/ MainSkip
    \/ MainCreate
    \/ MainDispatch
    \/ TarOpen
    \/ TarEntries
    \/ TarLine
    \/ ZipOpen
    \/ ZipEntry
    \/ MainFlush
    \/ MainAbort
    \/ MainFinish
    \/ Rerun

Spec == Init /\ [][Next]_vars

(***************************************************************************)
(* The properties.                                                         *)
(***************************************************************************)
IsArchiveName(n) == EndsWith(n, TarGzSuffix) \/ EndsWith(n, ZipSuffix)

\* the names File::create was called for in this run
Created == UNION {writers[p] : p \in DOMAIN writers}

Range(s) == {s[i] : i \in 1..Len(s)}

\* C1: a regular file whose name ends with neither .tar.gz nor .zip is skipped
\* without effect: no output file is created or truncated for it.
C1_NonArchiveHasNoEffect ==
    \A n \in Created : IsArchiveName(n)

\* What C2 expects of one entry: its bytes cut at every LF, a line being the
\* bytes before the LF less one CR that ends them, and the bytes after the
\* last LF when there are any; each line without a BAD byte, then one LF.
LineOut(cur, terminated) ==
    IF BAD \in Range(cur) THEN <<>>
    ELSE IF terminated /\ cur # <<>> /\ Last(cur) = CR
    THEN SubSeq(cur, 1, Len(cur) - 1) \o <<LF>>
    ELSE cur \o <<LF>>

RECURSIVE EntryLinesOut(_, _)
EntryLinesOut(data, cur) ==
    IF data = <<>> THEN (IF cur = <<>> THEN <<>> ELSE LineOut(cur, FALSE))
    ELSE IF Head(data) = LF THEN LineOut(cur, TRUE) \o EntryLinesOut(Tail(data), <<>>)
    ELSE EntryLinesOut(Tail(data), Append(cur, Head(data)))

RECURSIVE TarExpected(_)
TarExpected(es) ==
    IF es = <<>> THEN <<>>
    ELSE (IF Head(es).kind = "file" THEN EntryLinesOut(Head(es).data, <<>>) ELSE <<>>)
         \o TarExpected(Tail(es))

RECURSIVE ZipExpected(_)
ZipExpected(es) ==
    IF es = <<>> THEN <<>>
    ELSE (IF Head(es).kind = "file" THEN Head(es).data \o <<LF>> ELSE <<>>)
         \o ZipExpected(Tail(es))

\* C3: when stream_zip returns from an archive whose entries' bytes can all be
\* read (into a sink that takes them), the sink holds, in index order and for
\* the regular-file entries only, the entry's bytes verbatim and one LF per
\* entry; directory entries contribute nothing.
C3_ZipOutput ==
    (pc \in {"flush", "abort"} /\ archive.tail \in {"eof", "badentry"} /\ Writable)
        => /\ Sink = ZipExpected(archive.entries)
           /\ archive.tail = "eof" => pc = "flush"
           /\ (\A i \in 1..Len(archive.entries) : archive.entries[i].kind = "dir")
                  => Sink = <<>>

C3_Witness ==
    /\ pc = "flush"
    /\ archive.entries = <<FileEntry(<<"a">>), FileEntry(<<"b">>)>>
    /\ Sink = <<"a", LF, "b", LF>>

\* the lines of a byte string: one per LF, and one more for bytes after the last
LineCount(bytes) ==
    Cardinality({i \in 1..Len(bytes) : bytes[i] = LF})
    + (IF bytes # <<>> /\ Last(bytes) # LF THEN 1 ELSE 0)

RECURSIVE SourceLines(_)
SourceLines(es) ==
    IF es = <<>> THEN 0
    ELSE (IF Head(es).kind = "file" THEN LineCount(Head(es).data) ELSE 0)
         + SourceLines(Tail(es))

\* C4: at every point of an archive's extraction the number of lines written
\* to the output is at most the sum of the line counts of its regular-file
\* entries, zip entries that are empty or end with a line terminator included.
C4_LineCountBound ==
    LineCount(Sink) <= SourceLines(archive.entries)

\* C5: within one run two distinct archives never create the same output path.
C5_OwnOutputFile ==
    \A p \in DOMAIN writers : Cardinality(writers[p]) <= 1

\* C6: when the run ends on a fatal error, the final notice has not been
\* printed, no file later in the scan has had an output created, and the
\* output of every archive completed earlier is on disk as it was written.
C6_FatalStopsRun ==
    exit = "err"
        => /\ ~allDone
           /\ \A n \in Range(todo) : n \notin Created
           /\ \A p \in DOMAIN flushed : disk[p] = flushed[p]

\* C7: a second run in the directory the first one left ends with the same
\* output files, byte for byte, and takes none of the first run's outputs
\* as an input.
C7_SecondRunIdentical ==
    run = 2 => /\ pc \in {"done", "failed"} => disk = snap
               /\ \A n \in Created : n \in DOMAIN dir /\ n \notin DOMAIN snap

C7_Witness ==
    /\ run = 2
    /\ pc = "done"
    /\ \E p \in DOMAIN disk : disk[p] # <<>> /\ p \in DOMAIN snap /\ p \in DOMAIN writers

\* the output path of the input name n is p: n is <stem>.tar.gz or <stem>.zip
\* and p is <stem>_logs.txt
NamedFor(n, p) ==
    \E k \in 0..Len(n) :
        LET stem == SubSeq(n, 1, k)
        IN  /\ n = stem \o TarGzSuffix \/ n = stem \o ZipSuffix
            /\ p = stem \o LogsSuffix

HasOutput(n) == \E p \in DOMAIN writers : n \in writers[p] /\ NamedFor(n, p)

C9_ReadErrorIsFatal ==
    lastErr = "io" => pc = "abort"

\* C10: every archive whose processing starts reaches a terminal state; in
\* particular the per-line loop of stream_tar_gz terminates, also when a line
\* read keeps returning an error.
C10_ArchiveTerminates ==
    <>(pc \in {"flush", "abort"})

====
